---- MODULE Spec2Model ----
(***************************************************************************)
(* The NetworkManager client of ironbar: the per-technology policies of    *)
(* clients/networkmanager/state.rs, the aggregation passes, watchers and   *)
(* state publisher of clients/networkmanager/mod.rs, and the subscriber of *)
(* modules/networkmanager.rs.                                              *)
(***************************************************************************)
EXTENDS Integers, Sequences, FiniteSets, Bags, TLC

\* ------------------------------------------------------------------ bounds

\* Number of device paths the policy inputs range over.
MaxDevices == 2
\* Number of active-connection paths the policy inputs range over.
MaxConns == 2
\* Number of changes the bus makes while the client runs.
MaxEvents == 2
\* Number of changes the bus makes while the client runs with subscribers.
MaxSubEvents == 1
\* Number of aggregation passes that hold a computed State and have not yet
\* written it.
MaxInFlight == 2
\* Number of subscriptions taken.
MaxSubscribers == 1
\* Number of changes the bus makes while the client runs with its lock
\* acquisitions as separate steps.
MaxLockEvents == 2
\* Largest number of display levels strengh_to_level is applied to.
MaxLevels == 22
\* The largest strength: "strength level (from 0-100)".
MaxStrength == 100

\* ---------------------------------------------------------------- universes

Paths == 1..MaxDevices
ConnPaths == 1..MaxConns
\* "/" is the path NetworkManager reports when no access point is associated.
NoAccessPoint == "/"
ApPaths == {"/ap/1", "/ap/2"}
DeviceTypes == {"Ethernet", "Wifi", "Modem", "Other"}
\* The three classes of DeviceState the policies tell apart.
DeviceStates == {"NotEnabled", "Enabled", "Activated"}
ConnTypes == {"vpn", "wireguard", "802-3-ethernet"}

\* A D-Bus variant: a signature and a value.
StrVariant(s) == [sig |-> "s", str |-> s, num |-> 0]
U32Variant(n) == [sig |-> "u", str |-> "", num |-> n]
\* One entry of Ip4Config.AddressData: a dictionary from key to variant.
AddrFull == [k \in {"address", "prefix"} |-> IF k = "address" THEN StrVariant("10.0.0.2") ELSE U32Variant(24)]
AddrNoAddress == [k \in {"prefix"} |-> U32Variant(24)]
AddrNoPrefix == [k \in {"address"} |-> StrVariant("10.0.0.2")]
AddrBadTypes == [k \in {"address", "prefix"} |-> IF k = "address" THEN U32Variant(7) ELSE StrVariant("x")]
AddressDatas == {<<>>, <<AddrFull>>, <<AddrNoAddress>>, <<AddrNoPrefix>>, <<AddrBadTypes>>}

\* A remote device object. alive = FALSE: the object vanished from the bus while
\* its proxy is still held, so every query on it fails.
DeviceObj(a, t, s, ap, ad) == [alive |-> a, type |-> t, state |-> s, ap |-> ap, address_data |-> ad]
GoneDevice == DeviceObj(FALSE, "Other", "NotEnabled", NoAccessPoint, <<>>)
DeviceObjs ==
    {GoneDevice}
    \cup {DeviceObj(TRUE, t, s, NoAccessPoint, <<>>) : t \in {"Ethernet", "Modem"}, s \in DeviceStates}
    \cup {DeviceObj(TRUE, "Other", s, NoAccessPoint, <<>>) : s \in {"NotEnabled", "Activated"}}
    \cup {DeviceObj(TRUE, "Wifi", s, NoAccessPoint, <<>>) : s \in DeviceStates}
    \cup {DeviceObj(TRUE, "Wifi", "Enabled", "/ap/1", <<AddrFull>>)}
    \cup {DeviceObj(TRUE, "Wifi", "Activated", ap, ad) : ap \in ApPaths, ad \in AddressDatas}

\* A remote active-connection object.
ConnObj(a, t) == [alive |-> a, type |-> t]
ConnObjs == {ConnObj(FALSE, "vpn")} \cup {ConnObj(TRUE, t) : t \in ConnTypes}

\* A remote access-point object.
ApObj(a, s) == [alive |-> a, strength |-> s]

\* The orders in which a HashMap over the keys S may be iterated.
Perms(S) == {o \in [1..Cardinality(S) -> S] : \A i, j \in 1..Cardinality(S) : o[i] = o[j] => i = j}

\* ------------------------------------------------------------------- state

VARIABLES
    devices,             \* ClientInner.devices: path -> proxy (handle id)
    active_connections,  \* ClientInner.active_connections: path -> proxy (handle id)
    access_point,        \* ClientInner.access_point: the tracked path, or "none"
    state,               \* ClientInner.state: the published State
    dev_obj,             \* the bus: the device object behind each path
    conn_obj,            \* the bus: the active-connection object behind each path
    ap_obj,              \* the bus: the access-point object behind each path
    result,              \* the value returned by the last policy function applied
    run,                 \* Client::run: its position and the State its pass computed
    workers,             \* the item watchers and strength watchers: a bag of threads
    devlist,             \* the devices list watcher
    aclist,              \* the active_connections list watcher
    subs,                \* the signals handed out by subscribe()
    next_handle,         \* the number of proxies built so far
    events,              \* the number of changes the bus will still make
    npub,                \* the number of State values published by state.set
    last_pass,           \* what the last finished aggregation pass computed for each field
    passes               \* whether an active-connection pass has published, and whether a pass has failed

vars == <<devices, active_connections, access_point, state, dev_obj, conn_obj, ap_obj, result,
          run, workers, devlist, aclist, subs, next_handle, events, npub, last_pass, passes>>
client_vars == <<devices, active_connections, access_point, state,
                 run, workers, devlist, aclist, subs, next_handle, events, npub, last_pass, passes>>

\* ------------------------------------------------------------ state.rs types

WifiVal(tag) == [tag |-> tag, ssid |-> "", bssid |-> "", strength |-> 0, ip4_address |-> "", ip4_prefix |-> 0]
WifiConnectedState(ssid, bssid, strength, a, p) == [tag |-> "Connected", ssid |-> ssid, bssid |-> bssid, strength |-> strength, ip4_address |-> a, ip4_prefix |-> p]
VpnVal(tag) == [tag |-> tag, name |-> ""]
VpnConnectedState(name) == [tag |-> "Connected", name |-> name]
State(wired, wifi, cellular, vpn) == [wired |-> wired, wifi |-> wifi, cellular |-> cellular, vpn |-> vpn]
\* The Err arm of a Result, for each result type.
Err == "Err"
WifiErr == WifiVal("Err")
VpnErr == VpnVal("Err")

\* DeviceState::is_enabled: true of the enabled states, of which Activated is one.
is_enabled(s) == s \in {"Enabled", "Activated"}

\* The static attributes of an access point.
ApSsid(ap) == IF ap = "/ap/1" THEN "home" ELSE "cafe"
ApHwAddress(ap) == IF ap = "/ap/1" THEN "AA:01" ELSE "AA:02"

\* --------------------------------------------------- determine_wired_state

\* The for loop of determine_wired_state from position i of the iteration order.
RECURSIVE WiredScan(_, _, _, _)
WiredScan(dev, ord, i, present) ==
    IF i > Len(ord) THEN [err |-> FALSE, present |-> present, connected |-> FALSE]
    ELSE IF ~dev[ord[i]].alive THEN [err |-> TRUE, present |-> present, connected |-> FALSE]
    ELSE IF dev[ord[i]].type = "Ethernet"
         THEN IF is_enabled(dev[ord[i]].state)
              THEN [err |-> FALSE, present |-> TRUE, connected |-> TRUE]
              ELSE WiredScan(dev, ord, i + 1, TRUE)
         ELSE WiredScan(dev, ord, i + 1, present)

determine_wired_state(dev, ord) ==
    LET r == WiredScan(dev, ord, 1, FALSE) IN
    IF r.err THEN Err
    ELSE IF r.connected THEN "Connected"
    ELSE IF r.present THEN "Disconnected"
    ELSE "NotPresent"

\* ------------------------------------------------ determine_cellular_state

RECURSIVE CellularScan(_, _, _, _, _)
CellularScan(dev, ord, i, present, enabled) ==
    IF i > Len(ord) THEN [err |-> FALSE, present |-> present, enabled |-> enabled, connected |-> FALSE]
    ELSE IF ~dev[ord[i]].alive THEN [err |-> TRUE, present |-> present, enabled |-> enabled, connected |-> FALSE]
    ELSE IF dev[ord[i]].type = "Modem"
         THEN IF is_enabled(dev[ord[i]].state)
              THEN IF dev[ord[i]].state = "Activated"
                   THEN [err |-> FALSE, present |-> TRUE, enabled |-> TRUE, connected |-> TRUE]
                   ELSE CellularScan(dev, ord, i + 1, TRUE, TRUE)
              ELSE CellularScan(dev, ord, i + 1, TRUE, enabled)
         ELSE CellularScan(dev, ord, i + 1, present, enabled)

\* determine_cellular_state without the Activated test of line 218: an enabled
\* modem counts as connected, as an enabled Ethernet device does for wired.
determine_cellular_state_no_activated(dev, ord) ==
    LET r == CellularScan(dev, ord, 1, FALSE, FALSE) IN
    IF r.err THEN Err
    ELSE IF r.enabled THEN "Connected"
    ELSE IF r.present THEN "Disabled"
    ELSE "NotPresent"

determine_cellular_state(dev, ord) ==
    LET r == CellularScan(dev, ord, 1, FALSE, FALSE) IN
    IF r.err THEN Err
    ELSE IF r.connected THEN "Connected"
    ELSE IF r.enabled THEN "Disconnected"
    ELSE IF r.present THEN "Disabled"
    ELSE "NotPresent"

\* ----------------------------------------------------- determine_vpn_state

RECURSIVE VpnScan(_, _, _)
VpnScan(conn, ord, i) ==
    IF i > Len(ord) THEN VpnVal("Disconnected")
    ELSE IF ~conn[ord[i]].alive THEN VpnErr
    ELSE IF conn[ord[i]].type \in {"vpn", "wireguard"} THEN VpnConnectedState("unknown")
    ELSE VpnScan(conn, ord, i + 1)

\* determine_vpn_state matching "vpn" alone.
RECURSIVE VpnScanVpnOnly(_, _, _)
VpnScanVpnOnly(conn, ord, i) ==
    IF i > Len(ord) THEN VpnVal("Disconnected")
    ELSE IF ~conn[ord[i]].alive THEN VpnErr
    ELSE IF conn[ord[i]].type = "vpn" THEN VpnConnectedState("unknown")
    ELSE VpnScanVpnOnly(conn, ord, i + 1)

determine_vpn_state_vpn_only(conn, ord) == VpnScanVpnOnly(conn, ord, 1)

determine_vpn_state(conn, ord) == VpnScan(conn, ord, 1)

\* ---------------------------------------------------- determine_wifi_state

\* The for loop of determine_wifi_state: device = 0 when no device is connected.
RECURSIVE WifiScan(_, _, _, _, _)
WifiScan(dev, ord, i, present, enabled) ==
    IF i > Len(ord) THEN [err |-> FALSE, present |-> present, enabled |-> enabled, device |-> 0, ap |-> NoAccessPoint]
    ELSE IF ~dev[ord[i]].alive THEN [err |-> TRUE, present |-> present, enabled |-> enabled, device |-> 0, ap |-> NoAccessPoint]
    ELSE IF dev[ord[i]].type = "Wifi"
         THEN IF is_enabled(dev[ord[i]].state)
              THEN IF dev[ord[i]].ap # NoAccessPoint
                   THEN [err |-> FALSE, present |-> TRUE, enabled |-> TRUE, device |-> ord[i], ap |-> dev[ord[i]].ap]
                   ELSE WifiScan(dev, ord, i + 1, TRUE, TRUE)
              ELSE WifiScan(dev, ord, i + 1, TRUE, enabled)
         ELSE WifiScan(dev, ord, i + 1, present, enabled)

\* String::try_from(variant).unwrap_or_default() and u32::try_from(variant).unwrap_or_default()
StringTryFromOrDefault(v) == IF v.sig = "s" THEN v.str ELSE ""
U32TryFromOrDefault(v) == IF v.sig = "u" THEN v.num ELSE 0

\* The Some((device, access_point)) arm, up to the access-point tracker block:
\* the detail of the connection, or the error the first failing query returns.
WifiConnected(dev, aps, d, ap) ==
    LET ssid == IF aps[ap].alive THEN ApSsid(ap) ELSE "unkown"
        address_data == dev[d].address_data
    IN  IF ~aps[ap].alive THEN WifiErr                          \* hw_address()?
        ELSE IF ~dev[d].alive THEN WifiErr                      \* ip4_config()?, address_data()?
        ELSE IF Len(address_data) = 0 THEN WifiErr              \* "No address in IP4Config"
        ELSE IF "address" \notin DOMAIN address_data[1] THEN WifiErr
        ELSE IF "prefix" \notin DOMAIN address_data[1] THEN WifiErr
        ELSE WifiConnectedState(ssid, ApHwAddress(ap), aps[ap].strength,
                 StringTryFromOrDefault(address_data[1]["address"]),
                 U32TryFromOrDefault(address_data[1]["prefix"]))

\* The value determine_wifi_state returns, and the access point it resolved
\* (NoAccessPoint when the tracker block is not reached).
determine_wifi_state(dev, aps, ord) ==
    LET r == WifiScan(dev, ord, 1, FALSE, FALSE) IN
    IF r.err THEN [res |-> WifiErr, ap |-> NoAccessPoint]
    ELSE IF r.device # 0
         THEN LET c == WifiConnected(dev, aps, r.device, r.ap) IN
              [res |-> c, ap |-> IF c.tag = "Err" THEN NoAccessPoint ELSE r.ap]
    ELSE IF r.enabled THEN [res |-> WifiVal("Disconnected"), ap |-> NoAccessPoint]
    ELSE IF r.present THEN [res |-> WifiVal("Disabled"), ap |-> NoAccessPoint]
    ELSE [res |-> WifiVal("NotPresent"), ap |-> NoAccessPoint]


\* ------------------------------------------------------------ thread records

InitState == State("Unknown", WifiVal("Unknown"), "Unknown", VpnVal("Unknown"))
\* Where a thread stands in an aggregation pass: the State it has computed and
\* not yet written, if any (some, st), and the access point its tracker block
\* found untracked and has not yet installed (inst, NoAccessPoint for none).
NoSnap == [some |-> FALSE, st |-> InitState, inst |-> NoAccessPoint]
Snap(st) == [some |-> TRUE, st |-> st, inst |-> NoAccessPoint]
InPass(snap) == snap.some \/ snap.inst # NoAccessPoint
\* A registry over the paths S before any proxy is numbered.
Registry(S) == [p \in S |-> 0]
\* A thread that is in no pass: it holds no read guard of the devices lock.
NoGuard == [held |-> 0, pos |-> "idle"]
\* An item watcher bound to device path p, and a strength watcher bound to
\* access point ap; sig counts the notifications it has not yet handled.
\* lk: where the thread stands among the read acquisitions of the devices lock
\* that come before the last one of a pass (see the lock-level steps below).
ItemWatcher(p) == [kind |-> "item", dev |-> p, ap |-> "", sig |-> 0, snap |-> NoSnap, lk |-> NoGuard]
StrengthWatcher(ap) == [kind |-> "strength", dev |-> 0, ap |-> ap, sig |-> 0, snap |-> NoSnap, lk |-> NoGuard]
\* path_map and new_path_map: the locals of the loop body of a list watcher.
ListWatcher(alive) ==
    [alive |-> alive, sig |-> 0, pc |-> "wait", snap |-> NoSnap,
     path_map |-> Registry({}), new_path_map |-> Registry({})]
NoPass == [kind |-> "none", wired |-> "NotRun", wifi |-> WifiVal("NotRun"), cellular |-> "NotRun",
           vpn |-> VpnVal("NotRun")]
NoResult == [fn |-> "none", wired |-> "Unknown", wifi |-> WifiVal("Unknown"), cellular |-> "Unknown", vpn |-> VpnVal("Unknown")]

\* The access-point tracker block of determine_wifi_state, reached with the
\* resolved access point ap (NoAccessPoint: the block is not reached). The
\* tracked path is kept when it is ap; otherwise it is replaced by ap and a
\* strength watcher is spawned for ap. The comparison is made under a read
\* lock that is released before the write lock is taken.
TrackerInstalls(ap) == ap # NoAccessPoint /\ access_point # ap
\* What a thread holds after the comparison of a pass that computed o.
Computed(o) ==
    [some |-> o.ok, st |-> IF o.ok THEN o.st ELSE InitState,
     inst |-> IF TrackerInstalls(o.ap) THEN o.ap ELSE NoAccessPoint]
TrackedAfter(ap) == IF TrackerInstalls(ap) THEN ap ELSE access_point
SpawnedBy(ap) == IF TrackerInstalls(ap) THEN SetToBag({StrengthWatcher(ap)}) ELSE EmptyBag

\* ------------------------------------------- the policies on drawn inputs

\* A create_client that spawns Client::run whatever Client::new returned.
create_client_ignoring_error(connected) ==
    [pc |-> "init_conns", snap |-> NoSnap, connected |-> connected]

\* create_client: Client::new()? returns the Err of Connection::system() or of
\* DbusProxyBlocking::new to the caller; otherwise the thread of Client::run is
\* spawned. connected records which of the two happened.
create_client(connected) ==
    [pc |-> IF connected THEN "init_conns" ELSE "error", snap |-> NoSnap, connected |-> connected]

\* The client as Client::new leaves it (connected), or what there is when
\* Client::new failed: no client, and nothing that runs.
ClientCreated(connected) ==
    /\ state = InitState
    /\ run = create_client(connected)
    /\ workers = EmptyBag
    /\ devlist = ListWatcher(FALSE)
    /\ aclist = ListWatcher(FALSE)
    /\ subs = <<>>
    /\ next_handle = 0
    /\ npub = 0
    /\ last_pass = NoPass
    /\ passes = [ac_published |-> FALSE, failed |-> FALSE]

ClientNew == ClientCreated(TRUE)
ConnectionError == ClientCreated(FALSE)

InitPolicy ==
    /\ ClientNew
    /\ events = 0
    /\ result = NoResult
    /\ \/ /\ \E S \in SUBSET Paths : devices = Registry(S)
          /\ dev_obj \in [Paths -> DeviceObjs]
          /\ \A p \in Paths \ DOMAIN devices : dev_obj[p] = GoneDevice
          /\ ap_obj \in {[a \in ApPaths |-> ApObj(TRUE, 40)], [a \in ApPaths |-> ApObj(a # "/ap/1", 40)]}
          /\ access_point \in {"none", "/ap/1"}
          /\ active_connections = Registry({})
          /\ conn_obj = [c \in ConnPaths |-> ConnObj(FALSE, "vpn")]
       \/ /\ devices = Registry({})
          /\ dev_obj = [p \in Paths |-> GoneDevice]
          /\ ap_obj = [a \in ApPaths |-> ApObj(TRUE, 40)]
          /\ access_point = "none"
          /\ \E S \in SUBSET ConnPaths : active_connections = Registry(S)
          /\ conn_obj \in [ConnPaths -> ConnObjs]
          /\ \A c \in ConnPaths \ DOMAIN active_connections : conn_obj[c] = ConnObj(FALSE, "vpn")

policy_frame == <<devices, active_connections, state, dev_obj, conn_obj, ap_obj,
                  run, devlist, aclist, subs, next_handle, events, npub, last_pass, passes>>

ApplyWired ==
    /\ result.fn = "none"
    /\ \E ord \in Perms(DOMAIN devices) :
         result' = [result EXCEPT !.fn = "wired", !.wired = determine_wired_state(dev_obj, ord)]
    /\ UNCHANGED <<policy_frame, access_point, workers>>

ApplyCellular ==
    /\ result.fn = "none"
    /\ \E ord \in Perms(DOMAIN devices) :
         result' = [result EXCEPT !.fn = "cellular", !.cellular = determine_cellular_state(dev_obj, ord)]
    /\ UNCHANGED <<policy_frame, access_point, workers>>

ApplyWifi ==
    /\ result.fn = "none"
    /\ \E ord \in Perms(DOMAIN devices) :
         LET w == determine_wifi_state(dev_obj, ap_obj, ord) IN
         /\ result' = [result EXCEPT !.fn = "wifi", !.wifi = w.res]
         /\ access_point' = TrackedAfter(w.ap)
         /\ workers' = workers (+) SpawnedBy(w.ap)
    /\ UNCHANGED policy_frame

ApplyVpn ==
    /\ result.fn = "none"
    /\ \E ord \in Perms(DOMAIN active_connections) :
         result' = [result EXCEPT !.fn = "vpn", !.vpn = determine_vpn_state(conn_obj, ord)]
    /\ UNCHANGED <<policy_frame, access_point, workers>>

NextPolicy == ApplyWired \/ ApplyCellular \/ ApplyWifi \/ ApplyVpn

SpecPolicy == InitPolicy /\ [][NextPolicy]_vars

\* ------------------------------------------------------- strengh_to_level

\* The bucketing with the product computed in the width of strength (u8),
\* without the cast to usize.
strengh_to_level_u8(strength, number_of_levels) ==
    IF strength < 5 THEN 0
    ELSE (((strength - 5) * (number_of_levels - 1)) % 256) \div 100 + 1

\* The bucketing without the floor of 5: a linear interpolation from 0.
strengh_to_level_linear(strength, number_of_levels) ==
    (strength * (number_of_levels - 1)) \div 100

\* strengh_to_level(strength: u8, number_of_levels: usize) -> usize, for
\* number_of_levels >= 1 (no usize operation of it overflows then).
strengh_to_level(strength, number_of_levels) ==
    IF strength < 5 THEN 0
    ELSE ((strength - 5) * (number_of_levels - 1)) \div 100 + 1

\* into_widget draws a strength and a number of icons and applies the function.
InitLevel ==
    /\ ClientNew
    /\ events = 0
    /\ devices = Registry({})
    /\ active_connections = Registry({})
    /\ access_point = "none"
    /\ dev_obj = [p \in Paths |-> GoneDevice]
    /\ conn_obj = [c \in ConnPaths |-> ConnObj(FALSE, "vpn")]
    /\ ap_obj = [a \in ApPaths |-> ApObj(TRUE, 40)]
    /\ \E s \in 0..MaxStrength, n \in 1..MaxLevels :
         result = [fn |-> "none", strength |-> s, number_of_levels |-> n, level |-> 0]

ApplyLevel ==
    /\ result.fn = "none"
    /\ result' = [result EXCEPT !.fn = "level",
                                !.level = strengh_to_level(result.strength, result.number_of_levels)]
    /\ UNCHANGED <<policy_frame, access_point, workers>>

SpecLevel == InitLevel /\ [][ApplyLevel]_vars

\* ------------------------------------------------------------------ the bus

\* The world the running client watches: device 1 is an Ethernet device or a
\* modem, device 2 a Wi-Fi device (not enabled, or associated with "/ap/1", when
\* the client starts), and there is one active-connection path.
ClientPaths == {1, 2}
ClientConns == {1}
Gone(t) == DeviceObj(FALSE, t, "NotEnabled", NoAccessPoint, <<>>)
Fresh(t) == DeviceObj(TRUE, t, "NotEnabled", NoAccessPoint, <<>>)
\* What a device of type t can look like while it is on the bus.
ClientObjs(t) ==
    IF t = "Wifi"
    THEN {Fresh(t), DeviceObj(TRUE, t, "Enabled", NoAccessPoint, <<>>)}
         \cup {DeviceObj(TRUE, t, "Activated", ap, <<AddrFull>>) : ap \in ApPaths}
    ELSE {DeviceObj(TRUE, t, st, NoAccessPoint, <<>>) : st \in DeviceStates}

\* The path lists on the bus, as the root object reports them.
DevicePathList == {p \in ClientPaths : dev_obj[p].alive}
ConnectionPathList == {c \in ClientConns : conn_obj[c].alive}

\* Every thread of the bag that listens to the stream (kind, dev, ap) gets
\* one more notification.
BumpSig(B, kind, dev, ap) ==
    LET f(r) == IF r.kind = kind /\ r.dev = dev /\ r.ap = ap THEN [r EXCEPT !.sig = @ + 1] ELSE r
    IN  [x \in {f(r) : r \in DOMAIN B} |-> B[CHOOSE r \in DOMAIN B : f(r) = x]]

SignalList(lw) == IF lw.alive THEN [lw EXCEPT !.sig = @ + 1] ELSE lw

\* The bus as the client finds it, with n changes to come.
World(n, worlds) ==
    /\ events = n
    /\ result = NoResult
    /\ devices = Registry({})
    /\ active_connections = Registry({})
    /\ access_point = "none"
    /\ \E w \in worlds : dev_obj = [p \in Paths |-> IF p \in ClientPaths THEN w[p] ELSE GoneDevice]
    /\ conn_obj = [c \in ConnPaths |-> ConnObj(FALSE, "vpn")]
    /\ ap_obj = [a \in ApPaths |-> ApObj(TRUE, 40)]

WorldWired == <<Fresh("Ethernet"), Fresh("Wifi")>>
WorldCellular == <<Fresh("Modem"), DeviceObj(TRUE, "Wifi", "Activated", "/ap/1", <<AddrFull>>)>>

Init == (ClientNew \/ ConnectionError) /\ World(MaxEvents, {WorldWired, WorldCellular})
InitSubscribers == (ClientNew \/ ConnectionError) /\ World(MaxSubEvents, {WorldCellular})

\* A property of device p changes; StateChanged is emitted when its state does.
EnvDeviceChanged(p) ==
    /\ events > 0
    /\ dev_obj[p].alive
    /\ \E o \in ClientObjs(dev_obj[p].type) \ {dev_obj[p]} :
         /\ dev_obj' = [dev_obj EXCEPT ![p] = o]
         /\ workers' = IF o.state # dev_obj[p].state
                       THEN BumpSig(workers, "item", p, "")
                       ELSE workers
    /\ events' = events - 1
    /\ UNCHANGED <<devices, active_connections, access_point, state, conn_obj, ap_obj, result,
                   run, devlist, aclist, subs, next_handle, npub, last_pass, passes>>

\* Device p leaves or joins the bus; the root object emits DevicesChanged.
EnvDevicesListChanged(p) ==
    /\ events > 0
    /\ dev_obj' = [dev_obj EXCEPT ![p] = IF @.alive THEN Gone(@.type) ELSE Fresh(@.type)]
    /\ devlist' = SignalList(devlist)
    /\ events' = events - 1
    /\ UNCHANGED <<devices, active_connections, access_point, state, conn_obj, ap_obj, result,
                   run, workers, aclist, subs, next_handle, npub, last_pass, passes>>

\* Connection c is activated with some type, or deactivated; the root object
\* emits ActiveConnectionsChanged.
EnvConnectionsChanged(c) ==
    /\ events > 0
    /\ \/ /\ conn_obj[c].alive
          /\ conn_obj' = [conn_obj EXCEPT ![c] = ConnObj(FALSE, "vpn")]
       \/ /\ ~conn_obj[c].alive
          /\ \E t \in ConnTypes : conn_obj' = [conn_obj EXCEPT ![c] = ConnObj(TRUE, t)]
    /\ aclist' = SignalList(aclist)
    /\ events' = events - 1
    /\ UNCHANGED <<devices, active_connections, access_point, state, dev_obj, ap_obj, result,
                   run, workers, devlist, subs, next_handle, npub, last_pass, passes>>

\* The strength of access point ap changes; the access point emits the change.
EnvStrengthChanged(ap) ==
    /\ events > 0
    /\ ap_obj' = [ap_obj EXCEPT ![ap].strength = IF @ = 40 THEN 80 ELSE 40]
    /\ workers' = BumpSig(workers, "strength", 0, ap)
    /\ events' = events - 1
    /\ UNCHANGED <<devices, active_connections, access_point, state, dev_obj, conn_obj, result,
                   run, devlist, aclist, subs, next_handle, npub, last_pass, passes>>

\* ---------------------------------------------------- the state publisher

\* A set that wakes no signal.
NotifyNone(ss) == ss

\* Mutable::set wakes the signals: every signal handed out is marked changed.
Notify(ss) == [i \in DOMAIN ss |-> [ss[i] EXCEPT !.changed = TRUE]]

\* The number of passes that hold a computed State they have not written.
InFlight ==
    BagCardinality([r \in {x \in DOMAIN workers : x.snap.some} |-> workers[r]])
    + (IF run.snap.some THEN 1 ELSE 0)
    + (IF devlist.snap.some THEN 1 ELSE 0)
    + (IF aclist.snap.some THEN 1 ELSE 0)

\* state.set(st) at the end of a pass of the given kind.
Publish(kind, st) ==
    /\ state' = st
    /\ npub' = npub + 1
    /\ subs' = Notify(subs)
    /\ last_pass' = [kind |-> kind,
                     wired |-> IF kind = "dev" THEN st.wired ELSE "NotRun",
                     wifi |-> IF kind = "dev" THEN st.wifi ELSE WifiVal("NotRun"),
                     cellular |-> IF kind = "dev" THEN st.cellular ELSE "NotRun",
                     vpn |-> IF kind = "ac" THEN st.vpn ELSE VpnVal("NotRun")]
    /\ passes' = [passes EXCEPT !.ac_published = @ \/ kind = "ac"]

\* ------------------------------------------ update_state_for_device_change

\* The fields of the State literal, evaluated in order with the registry
\* iterated in order ord; the first Err ends the pass, and the fields after it
\* are not evaluated. vpn is read from the published State.
\* An aggregation that also computes vpn, from the active-connection registry.
DevicePassComputingVpn(ord) ==
    LET wired == determine_wired_state(dev_obj, ord)
        w == IF wired = Err
             THEN [res |-> WifiVal("NotRun"), ap |-> NoAccessPoint]
             ELSE determine_wifi_state(dev_obj, ap_obj, ord)
        cellular == IF wired = Err \/ w.res.tag = "Err"
                    THEN "NotRun"
                    ELSE determine_cellular_state(dev_obj, ord)
        v == determine_vpn_state(conn_obj, CHOOSE o \in Perms(DOMAIN active_connections) : TRUE)
    IN  [ok |-> wired # Err /\ w.res.tag # "Err" /\ cellular # Err,
         wired |-> wired, wifi |-> w.res, ap |-> w.ap, cellular |-> cellular,
         st |-> State(wired, w.res, cellular, IF v.tag = "Err" THEN state.vpn ELSE v)]

DevicePass(ord) ==
    LET wired == determine_wired_state(dev_obj, ord)
        w == IF wired = Err
             THEN [res |-> WifiVal("NotRun"), ap |-> NoAccessPoint]
             ELSE determine_wifi_state(dev_obj, ap_obj, ord)
        cellular == IF wired = Err \/ w.res.tag = "Err"
                    THEN "NotRun"
                    ELSE determine_cellular_state(dev_obj, ord)
    IN  [ok |-> wired # Err /\ w.res.tag # "Err" /\ cellular # Err,
         wired |-> wired, wifi |-> w.res, ap |-> w.ap, cellular |-> cellular,
         st |-> State(wired, w.res, cellular, state.vpn)]

\* What a pass that ended in an Err leaves behind: nothing is written.
FailedPass(o) ==
    [kind |-> "dev", wired |-> o.wired, wifi |-> o.wifi, cellular |-> o.cellular,
     vpn |-> VpnVal("NotRun")]

\* The part of a pass before the tracker write and state.set, run by a thread
\* whose own record is already updated in bag B.
PassComputed(o, B) ==
    /\ o.ok => InFlight < MaxInFlight
    /\ workers' = B
    /\ last_pass' = IF o.ok THEN last_pass ELSE FailedPass(o)
    /\ passes' = [passes EXCEPT !.failed = @ \/ ~o.ok]
    /\ UNCHANGED <<access_point, state, npub, subs>>

\* --------------------------------------------------- spawn_property_watcher

Replace(B, w, w2) == (B (-) SetToBag({w})) (+) SetToBag({w2})

\* An item watcher that returns the Err of its pass, as the strength watcher
\* does.
ItemWatcherWakeReturningErr(w) ==
    /\ w.kind = "item" /\ w.sig > 0 /\ ~InPass(w.snap)
    /\ IF w.dev \notin DOMAIN devices
       THEN /\ workers' = workers (-) SetToBag({w})
            /\ UNCHANGED <<access_point, last_pass, passes, state, npub, subs>>
       ELSE \E ord \in Perms(DOMAIN devices) :
              LET o == DevicePass(ord) IN
              PassComputed(o, IF InPass(Computed(o))
                              THEN Replace(workers, w, [w EXCEPT !.sig = @ - 1, !.snap = Computed(o)])
                              ELSE workers (-) SetToBag({w}))
    /\ UNCHANGED <<devices, active_connections, dev_obj, conn_obj, ap_obj, result,
                   run, devlist, aclist, next_handle, events>>

\* One iteration of the loop of a device's item watcher, up to state.set.
ItemWatcherWake(w) ==
    /\ w.kind = "item" /\ w.sig > 0 /\ ~InPass(w.snap)
    /\ IF w.dev \notin DOMAIN devices
       THEN /\ workers' = workers (-) SetToBag({w})
            /\ UNCHANGED <<access_point, last_pass, passes, state, npub, subs>>
       ELSE \E ord \in Perms(DOMAIN devices) :
              LET o == DevicePass(ord) IN
              PassComputed(o, Replace(workers, w, [w EXCEPT !.sig = @ - 1, !.snap = Computed(o)]))
    /\ UNCHANGED <<devices, active_connections, dev_obj, conn_obj, ap_obj, result,
                   run, devlist, aclist, next_handle, events>>

\* One iteration of the loop of a strength watcher, up to the tracker write
\* and state.set; an Err of the pass is returned from the thread.
StrengthWatcherWake(w) ==
    /\ w.kind = "strength" /\ w.sig > 0 /\ ~InPass(w.snap)
    /\ IF access_point # "none" /\ access_point # w.ap
       THEN /\ workers' = workers (-) SetToBag({w})
            /\ UNCHANGED <<access_point, last_pass, passes, state, npub, subs>>
       ELSE \E ord \in Perms(DOMAIN devices) :
              LET o == DevicePass(ord) IN
              PassComputed(o, IF InPass(Computed(o))
                              THEN Replace(workers, w, [w EXCEPT !.sig = @ - 1, !.snap = Computed(o)])
                              ELSE workers (-) SetToBag({w}))
    /\ UNCHANGED <<devices, active_connections, dev_obj, conn_obj, ap_obj, result,
                   run, devlist, aclist, next_handle, events>>

\* The tracker write of a watcher's pass: the path is stored and a strength
\* watcher is spawned for it. A strength watcher whose pass then ends in an Err
\* returns.
WatcherInstall(w) ==
    /\ w.snap.inst # NoAccessPoint
    /\ access_point' = w.snap.inst
    /\ workers' = (IF w.kind = "strength" /\ ~w.snap.some
                   THEN workers (-) SetToBag({w})
                   ELSE Replace(workers, w, [w EXCEPT !.snap.inst = NoAccessPoint]))
                  (+) SetToBag({StrengthWatcher(w.snap.inst)})
    /\ UNCHANGED <<devices, active_connections, state, dev_obj, conn_obj, ap_obj, result,
                   run, devlist, aclist, subs, next_handle, events, npub, last_pass, passes>>

\* state.set at the end of a watcher's pass.
WatcherPublish(w) ==
    /\ w.snap.some /\ w.snap.inst = NoAccessPoint
    /\ Publish("dev", w.snap.st)
    /\ workers' = Replace(workers, w, [w EXCEPT !.snap = NoSnap])
    /\ UNCHANGED <<devices, active_connections, access_point, dev_obj, conn_obj, ap_obj, result,
                   run, devlist, aclist, next_handle, events>>

\* -------------------------------------------------- spawn_path_list_watcher

\* A resync that builds a proxy for every path of the list, kept or new.
ResyncRebuildAll(reg, new_paths, base) ==
    [p \in new_paths |-> base + Cardinality({q \in new_paths : q <= p})]

\* The new path map of one loop iteration: a path of the registry keeps its
\* proxy, a new path gets a proxy built now (numbered from base).
Resync(reg, new_paths, base) ==
    [p \in new_paths |->
        IF p \in DOMAIN reg THEN reg[p]
        ELSE base + Cardinality({q \in new_paths \ DOMAIN reg : q <= p})]
Built(reg, new_paths) == Cardinality(new_paths \ DOMAIN reg)

\* The devices list watcher handles DevicesChanged: it reads the device list,
\* swaps in the new path map and spawns an item watcher for each path of the
\* list it read.
DevListResync ==
    /\ devlist.alive /\ devlist.sig > 0 /\ devlist.pc = "wait"
    /\ LET new_paths == {p \in ClientPaths : dev_obj[p].alive} IN
       /\ devices' = Resync(devices, new_paths, next_handle)
       /\ next_handle' = next_handle + Built(devices, new_paths)
       /\ workers' = workers (+) SetToBag({ItemWatcher(p) : p \in new_paths})
    /\ devlist' = [devlist EXCEPT !.sig = @ - 1, !.pc = "resynced"]
    /\ UNCHANGED <<active_connections, access_point, state, dev_obj, conn_obj, ap_obj, result,
                   run, aclist, subs, events, npub, last_pass, passes>>

\* ... then runs update_state_for_device_change and drops its Err.
DevListCompute ==
    /\ devlist.pc = "resynced"
    /\ \E ord \in Perms(DOMAIN devices) :
         LET o == DevicePass(ord) IN
         /\ PassComputed(o, workers)
         /\ devlist' = [devlist EXCEPT !.pc = IF Computed(o).inst # NoAccessPoint THEN "install"
                                             ELSE IF o.ok THEN "set" ELSE "wait",
                                       !.snap = Computed(o)]
    /\ UNCHANGED <<devices, active_connections, dev_obj, conn_obj, ap_obj, result,
                   run, aclist, next_handle, events>>

\* The tracker write of its pass.
DevListInstall ==
    /\ devlist.pc = "install"
    /\ access_point' = devlist.snap.inst
    /\ workers' = workers (+) SetToBag({StrengthWatcher(devlist.snap.inst)})
    /\ devlist' = [devlist EXCEPT !.pc = IF devlist.snap.some THEN "set" ELSE "wait",
                                  !.snap.inst = NoAccessPoint]
    /\ UNCHANGED <<devices, active_connections, state, dev_obj, conn_obj, ap_obj, result,
                   run, aclist, subs, next_handle, events, npub, last_pass, passes>>

DevListPublish ==
    /\ devlist.pc = "set"
    /\ Publish("dev", devlist.snap.st)
    /\ devlist' = [devlist EXCEPT !.pc = "wait", !.snap = NoSnap]
    /\ UNCHANGED <<devices, active_connections, access_point, dev_obj, conn_obj, ap_obj, result,
                   run, workers, aclist, next_handle, events>>

\* The active_connections list watcher handles ActiveConnectionsChanged.
AcListResync ==
    /\ aclist.alive /\ aclist.sig > 0 /\ aclist.pc = "wait"
    /\ LET new_paths == {c \in ClientConns : conn_obj[c].alive} IN
       /\ active_connections' = Resync(active_connections, new_paths, next_handle)
       /\ next_handle' = next_handle + Built(active_connections, new_paths)
    /\ aclist' = [aclist EXCEPT !.sig = @ - 1, !.pc = "resynced"]
    /\ UNCHANGED <<devices, access_point, state, dev_obj, conn_obj, ap_obj, result,
                   run, workers, devlist, subs, events, npub, last_pass, passes>>

\* Its state update: wired, wifi and cellular are read from the published
\* State and vpn is computed; an Err of determine_vpn_state is returned from
\* the thread, which ends the watcher.
AcListCompute ==
    /\ aclist.pc = "resynced"
    /\ \E ord \in Perms(DOMAIN active_connections) :
         LET vpn == determine_vpn_state(conn_obj, ord) IN
         IF vpn.tag = "Err"
         THEN /\ aclist' = [aclist EXCEPT !.alive = FALSE, !.pc = "wait"]
              /\ last_pass' = [kind |-> "ac", wired |-> "NotRun", wifi |-> WifiVal("NotRun"),
                               cellular |-> "NotRun", vpn |-> vpn]
              /\ passes' = [passes EXCEPT !.failed = TRUE]
         ELSE /\ InFlight < MaxInFlight
              /\ aclist' = [aclist EXCEPT !.pc = "set",
                                          !.snap = Snap(State(state.wired, state.wifi, state.cellular, vpn))]
              /\ UNCHANGED <<last_pass, passes>>
    /\ UNCHANGED <<devices, active_connections, access_point, state, dev_obj, conn_obj, ap_obj, result,
                   run, workers, devlist, subs, next_handle, events, npub>>

AcListPublish ==
    /\ aclist.pc = "set"
    /\ Publish("ac", aclist.snap.st)
    /\ aclist' = [aclist EXCEPT !.pc = "wait", !.snap = NoSnap]
    /\ UNCHANGED <<devices, active_connections, access_point, dev_obj, conn_obj, ap_obj, result,
                   run, workers, devlist, next_handle, events>>

\* -------------------------------------------------------------- Client::run

\* A Client::run that spawns the two list watchers before it enumerates.
RunInitConnsAfterSpawn ==
    /\ run.pc = "init_conns"
    /\ active_connections' = Registry({})
    /\ next_handle' = next_handle + Cardinality({c \in ClientConns : conn_obj[c].alive})
    /\ run' = [run EXCEPT !.pc = "init_devices"]
    /\ aclist' = ListWatcher(TRUE)
    /\ devlist' = ListWatcher(TRUE)
    /\ UNCHANGED <<devices, access_point, state, dev_obj, conn_obj, ap_obj, result,
                   workers, subs, events, npub, last_pass, passes>>

\* "initialize active_connections proxys": a proxy is built and inserted for
\* each path, and the registry is then overwritten with the empty local map.
RunInitConns ==
    /\ run.pc = "init_conns"
    /\ active_connections' = Registry({})
    /\ next_handle' = next_handle + Cardinality({c \in ClientConns : conn_obj[c].alive})
    /\ run' = [run EXCEPT !.pc = "init_devices"]
    /\ UNCHANGED <<devices, access_point, state, dev_obj, conn_obj, ap_obj, result,
                   workers, devlist, aclist, subs, events, npub, last_pass, passes>>

\* root_object.active_connections()? or the build of a proxy returns an Err:
\* Client::run returns, and spawn_blocking_result! logs the error.
RunInitConnsFails ==
    /\ run.pc = "init_conns"
    /\ run' = [run EXCEPT !.pc = "failed"]
    /\ UNCHANGED <<devices, active_connections, access_point, state, dev_obj, conn_obj, ap_obj, result,
                   workers, devlist, aclist, subs, next_handle, events, npub, last_pass, passes>>

\* A device enumeration that has stored the map and spawned the item watchers
\* when the Err is returned.
RunInitDevicesFailsAfterSpawn ==
    /\ run.pc = "init_devices"
    /\ LET new_paths == {p \in ClientPaths : dev_obj[p].alive} IN
       /\ devices' = Resync(Registry({}), new_paths, next_handle)
       /\ next_handle' = next_handle + Cardinality(new_paths)
       /\ workers' = workers (+) SetToBag({ItemWatcher(p) : p \in new_paths})
    /\ run' = [run EXCEPT !.pc = "failed"]
    /\ UNCHANGED <<active_connections, access_point, state, dev_obj, conn_obj, ap_obj, result,
                   devlist, aclist, subs, events, npub, last_pass, passes>>

\* root_object.devices()? or the build of a device proxy returns an Err, before
\* the map is stored and before any item watcher is spawned.
RunInitDevicesFails ==
    /\ run.pc = "init_devices"
    /\ run' = [run EXCEPT !.pc = "failed"]
    /\ UNCHANGED <<devices, active_connections, access_point, state, dev_obj, conn_obj, ap_obj, result,
                   workers, devlist, aclist, subs, next_handle, events, npub, last_pass, passes>>

\* "initialize devices proxys and watchers".
RunInitDevices ==
    /\ run.pc = "init_devices"
    /\ LET new_paths == {p \in ClientPaths : dev_obj[p].alive} IN
       /\ devices' = Resync(Registry({}), new_paths, next_handle)
       /\ next_handle' = next_handle + Cardinality(new_paths)
       /\ workers' = workers (+) SetToBag({ItemWatcher(p) : p \in new_paths})
    /\ run' = [run EXCEPT !.pc = "startup"]
    /\ UNCHANGED <<active_connections, access_point, state, dev_obj, conn_obj, ap_obj, result,
                   devlist, aclist, subs, events, npub, last_pass, passes>>

\* let _ = self.0.update_state_for_device_change(), up to state.set.
RunStartupCompute ==
    /\ run.pc = "startup"
    /\ \E ord \in Perms(DOMAIN devices) :
         LET o == DevicePass(ord) IN
         /\ PassComputed(o, workers)
         /\ run' = [run EXCEPT !.pc = IF Computed(o).inst # NoAccessPoint THEN "startup_install"
                                     ELSE IF o.ok THEN "startup_set" ELSE "spawn",
                               !.snap = Computed(o)]
    /\ UNCHANGED <<devices, active_connections, dev_obj, conn_obj, ap_obj, result,
                   devlist, aclist, next_handle, events>>

\* The tracker write of the startup pass.
RunStartupInstall ==
    /\ run.pc = "startup_install"
    /\ access_point' = run.snap.inst
    /\ workers' = workers (+) SetToBag({StrengthWatcher(run.snap.inst)})
    /\ run' = [run EXCEPT !.pc = IF run.snap.some THEN "startup_set" ELSE "spawn",
                          !.snap.inst = NoAccessPoint]
    /\ UNCHANGED <<devices, active_connections, state, dev_obj, conn_obj, ap_obj, result,
                   devlist, aclist, subs, next_handle, events, npub, last_pass, passes>>

RunStartupPublish ==
    /\ run.pc = "startup_set"
    /\ Publish("dev", run.snap.st)
    /\ run' = [run EXCEPT !.pc = "spawn", !.snap = NoSnap]
    /\ UNCHANGED <<devices, active_connections, access_point, dev_obj, conn_obj, ap_obj, result,
                   workers, devlist, aclist, next_handle, events>>

\* The two list watchers are spawned and start to listen.
RunSpawnListWatchers ==
    /\ run.pc = "spawn"
    /\ aclist' = ListWatcher(TRUE)
    /\ devlist' = ListWatcher(TRUE)
    /\ run' = [run EXCEPT !.pc = "done"]
    /\ UNCHANGED <<devices, active_connections, access_point, state, dev_obj, conn_obj, ap_obj, result,
                   workers, subs, next_handle, events, npub, last_pass, passes>>

\* ------------------------------------------------- subscribe and its reader

NoValue == [seq |-> -1, val |-> InitState]
\* A subscribe whose signal waits for the next publish before it yields.
subscribe_no_replay ==
    /\ run.connected
    /\ Len(subs) < MaxSubscribers
    /\ subs' = Append(subs, [changed |-> FALSE, at |-> [seq |-> npub, val |-> state],
                             first |-> NoValue, seen |-> NoValue])
    /\ UNCHANGED <<devices, active_connections, access_point, state, dev_obj, conn_obj, ap_obj, result,
                   run, workers, devlist, aclist, next_handle, events, npub, last_pass, passes>>

\* Client::subscribe: state.signal_cloned(), a signal that starts out changed.
\* at: the number of publishes so far and the State held at the moment.
subscribe ==
    /\ run.connected
    /\ Len(subs) < MaxSubscribers
    /\ subs' = Append(subs, [changed |-> TRUE, at |-> [seq |-> npub, val |-> state],
                             first |-> NoValue, seen |-> NoValue])
    /\ UNCHANGED <<devices, active_connections, access_point, state, dev_obj, conn_obj, ap_obj, result,
                   run, workers, devlist, aclist, next_handle, events, npub, last_pass, passes>>

\* client_signal.next().await in spawn_controller: a changed signal yields a
\* clone of the State held now and is changed no more.
SubscriberNext(i) ==
    /\ subs[i].changed
    /\ LET got == [seq |-> npub, val |-> state] IN
       subs' = [subs EXCEPT ![i] = [@ EXCEPT !.changed = FALSE, !.seen = got,
                                              !.first = IF @.seq = -1 THEN got ELSE @]]
    /\ UNCHANGED <<devices, active_connections, access_point, state, dev_obj, conn_obj, ap_obj, result,
                   run, workers, devlist, aclist, next_handle, events, npub, last_pass, passes>>

\* The client on a bus whose device list and signal strengths do not change.
NextFixedList ==
    \/ \E p \in ClientPaths : EnvDeviceChanged(p)
    \/ \E c \in ClientConns : EnvConnectionsChanged(c)
    \/ RunInitConns
    \/ RunInitConnsFails
    \/ RunInitDevices
    \/ RunInitDevicesFails
    \/ RunStartupCompute
    \/ RunStartupInstall
    \/ RunStartupPublish
    \/ RunSpawnListWatchers
    \/ \E w \in DOMAIN workers : ItemWatcherWake(w)
    \/ \E w \in DOMAIN workers : WatcherInstall(w)
    \/ \E w \in DOMAIN workers : WatcherPublish(w)
    \/ AcListResync
    \/ AcListCompute
    \/ AcListPublish

Next ==
    \/ NextFixedList
    \/ \E p \in ClientPaths : EnvDevicesListChanged(p)
    \/ \E ap \in ApPaths : EnvStrengthChanged(ap)
    \/ \E w \in DOMAIN workers : StrengthWatcherWake(w)
    \/ DevListResync
    \/ DevListCompute
    \/ DevListInstall
    \/ DevListPublish

Spec == Init /\ [][Next]_vars

NextSubscribers ==
    \/ NextFixedList
    \/ subscribe
    \/ \E i \in DOMAIN subs : SubscriberNext(i)

SpecSubscribers == InitSubscribers /\ [][NextSubscribers]_vars

\* ------------------------------------------------ the locks of the registries

\* The passes and resyncs again, with each acquisition of a registry lock as
\* a step of its own. update_state_for_device_change takes a read guard of the
\* devices lock for determine_wired_state, a second one inside
\* determine_wifi_state and a third one for determine_cellular_state; each
\* guard is a temporary of the state.set statement and is dropped when that
\* statement ends, after state.set or at the first Err. The bus is queried
\* under the last guard, as in the passes above.

\* Whether thread record t holds a read guard of the devices lock.
HoldsDevicesRead(t) == t.lk.held > 0 \/ InPass(t.snap)
DevicesReadHeld ==
    \/ \E w \in DOMAIN workers : HoldsDevicesRead(w)
    \/ InPass(run.snap)
    \/ InPass(devlist.snap)
\* The devices list watcher is in write(): it waits until no guard is held.
WriterWaiting == devlist.pc = "write"
CanWrite == ~DevicesReadHeld
\* A thread in read(): when no writer waits the guard is granted; when one
\* waits, the lock either grants it or queues the reader behind the writer
\* (RwLock leaves the policy open), and a queued reader is granted the guard
\* once the writer is done.
MayAcquireRead(t) ==
    \/ t.lk.pos = "acquire"
    \/ t.lk.pos = "parked" /\ ~WriterWaiting

\* An item watcher takes a notification and checks its path (the guard of the
\* check is dropped with the condition); the pass is entered if it is there.
LockedItemWake(w) ==
    /\ w.kind = "item" /\ w.sig > 0 /\ ~InPass(w.snap) /\ w.lk = NoGuard
    /\ workers' = IF w.dev \notin DOMAIN devices
                  THEN workers (-) SetToBag({w})
                  ELSE Replace(workers, w, [w EXCEPT !.sig = @ - 1, !.lk = [held |-> 0, pos |-> "acquire"]])
    /\ UNCHANGED <<devices, active_connections, access_point, state, dev_obj, conn_obj, ap_obj, result,
                   run, devlist, aclist, subs, next_handle, events, npub, last_pass, passes>>

\* A strength watcher takes a notification and checks the tracked path.
LockedStrengthWake(w) ==
    /\ w.kind = "strength" /\ w.sig > 0 /\ ~InPass(w.snap) /\ w.lk = NoGuard
    /\ workers' = IF access_point # "none" /\ access_point # w.ap
                  THEN workers (-) SetToBag({w})
                  ELSE Replace(workers, w, [w EXCEPT !.sig = @ - 1, !.lk = [held |-> 0, pos |-> "acquire"]])
    /\ UNCHANGED <<devices, active_connections, access_point, state, dev_obj, conn_obj, ap_obj, result,
                   run, devlist, aclist, subs, next_handle, events, npub, last_pass, passes>>

\* The first and the second read acquisition of a pass.
PassAcquire(w) ==
    /\ w.lk.held < 2
    /\ MayAcquireRead(w)
    /\ workers' = Replace(workers, w, [w EXCEPT !.lk = [held |-> @.held + 1, pos |-> "acquire"]])
    /\ UNCHANGED <<devices, active_connections, access_point, state, dev_obj, conn_obj, ap_obj, result,
                   run, devlist, aclist, subs, next_handle, events, npub, last_pass, passes>>

\* read() finds a writer waiting and queues the thread behind it.
PassPark(w) ==
    /\ w.lk.pos = "acquire"
    /\ WriterWaiting
    /\ workers' = Replace(workers, w, [w EXCEPT !.lk.pos = "parked"])
    /\ UNCHANGED <<devices, active_connections, access_point, state, dev_obj, conn_obj, ap_obj, result,
                   run, devlist, aclist, subs, next_handle, events, npub, last_pass, passes>>

\* The third read acquisition and the pass up to the tracker write and
\* state.set; a strength watcher returns the Err of its pass.
LockedCompute(w) ==
    /\ w.lk.held = 2
    /\ MayAcquireRead(w)
    /\ \E ord \in Perms(DOMAIN devices) :
         LET o == DevicePass(ord) IN
         PassComputed(o, IF w.kind = "strength" /\ ~InPass(Computed(o))
                         THEN workers (-) SetToBag({w})
                         ELSE Replace(workers, w, [w EXCEPT !.snap = Computed(o), !.lk = NoGuard]))
    /\ UNCHANGED <<devices, active_connections, dev_obj, conn_obj, ap_obj, result,
                   run, devlist, aclist, next_handle, events>>

\* The devices list watcher takes DevicesChanged, reads the device list and
\* builds new_path_map from the registry, under a read guard dropped at the
\* end of the block.
DevListRead ==
    /\ devlist.alive /\ devlist.sig > 0 /\ devlist.pc = "wait"
    /\ devlist' = [devlist EXCEPT !.sig = @ - 1, !.pc = "write", !.path_map = devices,
                                  !.new_path_map = Resync(devices, DevicePathList, next_handle)]
    /\ next_handle' = next_handle + Built(devices, DevicePathList)
    /\ UNCHANGED <<devices, active_connections, access_point, state, dev_obj, conn_obj, ap_obj, result,
                   run, workers, aclist, subs, events, npub, last_pass, passes>>

\* A write that brings the registry to new_path_map one path at a time.
DevListWriteInPlace ==
    /\ devlist.pc = "write"
    /\ CanWrite
    /\ LET stale == DOMAIN devices \ DOMAIN devlist.new_path_map
           added == DOMAIN devlist.new_path_map \ DOMAIN devices
       IN  IF stale \cup added = {}
           THEN /\ devices' = devlist.new_path_map
                /\ workers' = workers (+) SetToBag({ItemWatcher(p) : p \in DOMAIN devlist.new_path_map})
                /\ devlist' = [devlist EXCEPT !.pc = "resynced", !.path_map = Registry({}),
                                              !.new_path_map = Registry({})]
           ELSE /\ \E p \in stale \cup added :
                     devices' = [q \in IF p \in stale THEN DOMAIN devices \ {p} ELSE DOMAIN devices \cup {p} |->
                                    IF q \in DOMAIN devices THEN devices[q] ELSE devlist.new_path_map[q]]
                /\ UNCHANGED <<workers, devlist>>
    /\ UNCHANGED <<active_connections, access_point, state, dev_obj, conn_obj, ap_obj, result,
                   run, aclist, subs, next_handle, events, npub, last_pass, passes>>

\* *write_lock!(client.devices) = new_path_map, granted when no guard is held,
\* and the item watchers spawned for the paths of the list.
DevListWrite ==
    /\ devlist.pc = "write"
    /\ CanWrite
    /\ devices' = devlist.new_path_map
    /\ workers' = workers (+) SetToBag({ItemWatcher(p) : p \in DOMAIN devlist.new_path_map})
    /\ devlist' = [devlist EXCEPT !.pc = "resynced", !.path_map = Registry({}),
                                  !.new_path_map = Registry({})]
    /\ UNCHANGED <<active_connections, access_point, state, dev_obj, conn_obj, ap_obj, result,
                   run, aclist, subs, next_handle, events, npub, last_pass, passes>>

\* The same two steps of the active_connections list watcher, the one thread
\* that takes the active_connections lock once Client::run has spawned it.
AcListRead ==
    /\ aclist.alive /\ aclist.sig > 0 /\ aclist.pc = "wait"
    /\ aclist' = [aclist EXCEPT !.sig = @ - 1, !.pc = "write", !.path_map = active_connections,
                                !.new_path_map = Resync(active_connections, ConnectionPathList, next_handle)]
    /\ next_handle' = next_handle + Built(active_connections, ConnectionPathList)
    /\ UNCHANGED <<devices, active_connections, access_point, state, dev_obj, conn_obj, ap_obj, result,
                   run, workers, devlist, subs, events, npub, last_pass, passes>>

AcListWrite ==
    /\ aclist.pc = "write"
    /\ active_connections' = aclist.new_path_map
    /\ aclist' = [aclist EXCEPT !.pc = "resynced", !.path_map = Registry({}),
                                !.new_path_map = Registry({})]
    /\ UNCHANGED <<devices, access_point, state, dev_obj, conn_obj, ap_obj, result,
                   run, workers, devlist, subs, next_handle, events, npub, last_pass, passes>>

InitLocks == ClientNew /\ World(MaxLockEvents, {WorldCellular})

NextLocks ==
    \/ \E p \in ClientPaths : EnvDeviceChanged(p)
    \/ \E p \in ClientPaths : EnvDevicesListChanged(p)
    \/ \E c \in ClientConns : EnvConnectionsChanged(c)
    \/ \E ap \in ApPaths : EnvStrengthChanged(ap)
    \/ RunInitConns
    \/ RunInitDevices
    \/ RunStartupCompute
    \/ RunStartupInstall
    \/ RunStartupPublish
    \/ RunSpawnListWatchers
    \/ \E w \in DOMAIN workers : LockedItemWake(w)
    \/ \E w \in DOMAIN workers : LockedStrengthWake(w)
    \/ \E w \in DOMAIN workers : PassAcquire(w)
    \/ \E w \in DOMAIN workers : PassPark(w)
    \/ \E w \in DOMAIN workers : LockedCompute(w)
    \/ \E w \in DOMAIN workers : WatcherInstall(w)
    \/ \E w \in DOMAIN workers : WatcherPublish(w)
    \/ DevListRead
    \/ DevListWrite
    \/ DevListCompute
    \/ DevListInstall
    \/ DevListPublish
    \/ AcListRead
    \/ AcListWrite
    \/ AcListCompute
    \/ AcListPublish

SpecLocks == InitLocks /\ [][NextLocks]_vars

\* ------------------------------------------------ claims on the policies

\* The devices of the registry of each type, and whether every query answers.
DevicesOfType(t) == {p \in DOMAIN devices : dev_obj[p].alive /\ dev_obj[p].type = t}
EveryDeviceAnswers == \A p \in DOMAIN devices : dev_obj[p].alive
EveryAccessPointAnswers == \A a \in ApPaths : ap_obj[a].alive
EveryConnectionAnswers == \A c \in DOMAIN active_connections : conn_obj[c].alive
AssociatedWifi == {p \in DevicesOfType("Wifi") : is_enabled(dev_obj[p].state) /\ dev_obj[p].ap # NoAccessPoint}

\* C3: for every device set whose queries answer, determine_wired_state returns
\* Connected iff some Ethernet device is activated, NotPresent iff there is no
\* Ethernet device, and Disconnected otherwise.
C3_WiredPolicy ==
    (result.fn = "wired" /\ EveryDeviceAnswers) =>
        /\ result.wired = "Connected" <=> \E p \in DevicesOfType("Ethernet") : dev_obj[p].state = "Activated"
        /\ result.wired = "NotPresent" <=> DevicesOfType("Ethernet") = {}
        /\ result.wired \in {"Connected", "NotPresent", "Disconnected"}

\* C4: for every device set whose queries answer, determine_cellular_state
\* returns Connected iff some Modem is activated, else Disconnected iff some
\* Modem is enabled, else Disabled iff some Modem is present, else NotPresent;
\* the value is a function of the Modem devices alone.
C4_CellularPolicy ==
    (result.fn = "cellular" /\ EveryDeviceAnswers) =>
        result.cellular =
            IF \E p \in DevicesOfType("Modem") : dev_obj[p].state = "Activated" THEN "Connected"
            ELSE IF \E p \in DevicesOfType("Modem") : is_enabled(dev_obj[p].state) THEN "Disconnected"
            ELSE IF DevicesOfType("Modem") # {} THEN "Disabled"
            ELSE "NotPresent"

\* A modem that is enabled and not activated gave Disconnected beside an
\* activated device of another type.
C4_Witness ==
    /\ result.fn = "cellular"
    /\ result.cellular = "Disconnected"
    /\ EveryDeviceAnswers
    /\ \E p \in DevicesOfType("Modem") : dev_obj[p].state = "Enabled"
    /\ \E p \in DOMAIN devices : dev_obj[p].type # "Modem" /\ dev_obj[p].state = "Activated"

\* C5: with every query answering, determine_wifi_state returns Connected iff
\* some Wi-Fi device is enabled and associated, else Disconnected iff some Wi-Fi
\* device is enabled, else Disabled iff some Wi-Fi device exists, else
\* NotPresent, and every iteration order of the registry gives the same value.
C5_WifiPolicy ==
    (result.fn = "wifi" /\ EveryDeviceAnswers /\ EveryAccessPointAnswers) =>
        /\ result.wifi.tag =
               IF AssociatedWifi # {} THEN "Connected"
               ELSE IF \E p \in DevicesOfType("Wifi") : is_enabled(dev_obj[p].state) THEN "Disconnected"
               ELSE IF DevicesOfType("Wifi") # {} THEN "Disabled"
               ELSE "NotPresent"
        /\ \A ord \in Perms(DOMAIN devices) : determine_wifi_state(dev_obj, ap_obj, ord).res = result.wifi

\* C6: for every active-connection set whose queries answer, determine_vpn_state
\* returns Connected with the placeholder name iff some connection has type
\* "vpn" or "wireguard" and Disconnected otherwise; it never returns Unknown.
C6_VpnPolicy ==
    result.fn = "vpn" =>
        /\ result.vpn.tag # "Unknown"
        /\ EveryConnectionAnswers =>
               result.vpn =
                   IF \E c \in DOMAIN active_connections : conn_obj[c].type \in {"vpn", "wireguard"}
                   THEN VpnConnectedState("unknown")
                   ELSE VpnVal("Disconnected")

\* A set holding one "wireguard" connection and nothing else gave Connected.
C6_Witness ==
    /\ result.fn = "vpn"
    /\ Cardinality(DOMAIN active_connections) = 1
    /\ \A c \in DOMAIN active_connections : conn_obj[c] = ConnObj(TRUE, "wireguard")
    /\ result.vpn = VpnConnectedState("unknown")

\* C10: when the Wi-Fi devices that are enabled and associated have no
\* address-data entry, determine_wifi_state returns Connected with an empty
\* ip4_address and ip4_prefix 0.
C10_MissingAddressDefaults ==
    (/\ result.fn = "wifi"
     /\ EveryDeviceAnswers
     /\ EveryAccessPointAnswers
     /\ AssociatedWifi # {}
     /\ \A p \in AssociatedWifi : dev_obj[p].address_data = <<>>) =>
        /\ result.wifi.tag = "Connected"
        /\ result.wifi.ip4_address = ""
        /\ result.wifi.ip4_prefix = 0

\* ------------------------------------------------- claims on the publisher

\* C1: a subscription yields its first value without waiting for a publish; a
\* subscription taken after N publishes and read before the next publish
\* yields the State held when it was taken, the N-th published one, and one
\* taken before any publish holds the initial State.
C1_SubscriberReplay ==
    \A i \in DOMAIN subs :
        /\ subs[i].first.seq = -1 => subs[i].changed
        /\ subs[i].first.seq = subs[i].at.seq => subs[i].first.val = subs[i].at.val
        /\ subs[i].at.seq = 0 => subs[i].at.val = InitState

\* A subscription taken after two publishes was read before the third.
C1_Witness ==
    \E i \in DOMAIN subs :
        /\ subs[i].at.seq = 2
        /\ subs[i].first.seq = 2
        /\ subs[i].first.val = state

\* C9: a pass that holds a computed State can always write it; a subscriber
\* with nothing left to read has read the latest published State, so one
\* read after several publishes yields the most recent alone; and what a
\* subscriber reads never goes back in publish order.
C9_LatestValueOnly ==
    /\ [](\A i \in DOMAIN subs : ~subs[i].changed => subs[i].seen = [seq |-> npub, val |-> state])
    /\ []((run.pc = "startup_set" => ENABLED RunStartupPublish)
          /\ (devlist.pc = "set" => ENABLED DevListPublish)
          /\ (aclist.pc = "set" => ENABLED AcListPublish))
    /\ [][\A i \in DOMAIN subs : subs'[i].seen.seq >= subs[i].seen.seq]_vars

\* A subscriber whose first read came two publishes after it subscribed has
\* read the latest State and has nothing left to read.
C9_Witness ==
    \E i \in DOMAIN subs :
        /\ subs[i].first.seq = subs[i].at.seq + 2
        /\ ~subs[i].changed
        /\ subs[i].seen.seq = npub

\* ----------------------------------------- claims on the aggregation passes

\* The wired, cellular and vpn values the policies give for the devices and
\* connections on the bus.
TrueStates ==
    {[wired |-> determine_wired_state(dev_obj, o),
      cellular |-> determine_cellular_state(dev_obj, o),
      vpn |-> determine_vpn_state(conn_obj, c)] :
        o \in Perms({p \in ClientPaths : dev_obj[p].alive}),
        c \in Perms({x \in ClientConns : conn_obj[x].alive})}

\* No notification is waiting, no pass is in flight, both list watchers run
\* and both registries hold what is on the bus.
Quiescent ==
    /\ run.pc = "done"
    /\ \A w \in DOMAIN workers : w.sig = 0 /\ ~InPass(w.snap)
    /\ devlist.alive /\ devlist.sig = 0 /\ devlist.pc = "wait"
    /\ aclist.alive /\ aclist.sig = 0 /\ aclist.pc = "wait"
    /\ DOMAIN devices = {p \in ClientPaths : dev_obj[p].alive}
    /\ DOMAIN active_connections = {x \in ClientConns : conn_obj[x].alive}

\* C2: once notifications have stopped and every pass has completed without a
\* query failure, passes of both kinds having published, the published
\* wired, cellular and vpn fields are the ones the policies give for what is
\* on the bus (the Wi-Fi field is left aside: its detail also depends on
\* properties that raise no notification).
C2_EventualConvergence ==
    (Quiescent /\ passes.ac_published /\ ~passes.failed /\ npub >= 2) =>
        [wired |-> state.wired, cellular |-> state.cellular, vpn |-> state.vpn] \in TrueStates

\* C7: in a device pass, a field whose query failed keeps its published value
\* and every field whose query succeeded is published by that pass.
C7_FailureIsolation ==
    [][(last_pass' # last_pass /\ last_pass'.kind = "dev") =>
        /\ last_pass'.wired = Err => state'.wired = state.wired
        /\ last_pass'.wifi.tag = "Err" => state'.wifi = state.wifi
        /\ last_pass'.cellular = Err => state'.cellular = state.cellular
        /\ last_pass'.wired \notin {Err, "NotRun"} => state'.wired = last_pass'.wired
        /\ last_pass'.wifi.tag \notin {"Err", "NotRun"} => state'.wifi = last_pass'.wifi
        /\ last_pass'.cellular \notin {Err, "NotRun"} => state'.cellular = last_pass'.cellular]_vars

\* C8: the published State starts all Unknown, never holds an error value, and
\* a field that has left Unknown never returns to it.
C8_UnknownOnlyBeforeFirstData ==
    /\ state = InitState
    /\ [](state.wired # Err /\ state.wifi.tag # "Err" /\ state.cellular # Err /\ state.vpn.tag # "Err")
    /\ [][/\ state.wired # "Unknown" => state'.wired # "Unknown"
          /\ state.wifi.tag # "Unknown" => state'.wifi.tag # "Unknown"
          /\ state.cellular # "Unknown" => state'.cellular # "Unknown"
          /\ state.vpn.tag # "Unknown" => state'.vpn.tag # "Unknown"]_vars

\* ------------------------------------------- claims on the tracker and watchers

\* Whether a Wi-Fi device on the bus is enabled and associated (with ap).
AssociatedWith(ap) ==
    \E p \in ClientPaths :
        /\ dev_obj[p].alive /\ dev_obj[p].type = "Wifi"
        /\ is_enabled(dev_obj[p].state) /\ dev_obj[p].ap = ap
AssociatedOnBus == \E ap \in ApPaths : AssociatedWith(ap)
\* The number of strength watchers of bag B bound to ap, and of item watchers
\* bound to device path p.
CountStrength(B, ap) ==
    BagCardinality([r \in {x \in DOMAIN B : x.kind = "strength" /\ x.ap = ap} |-> B[r]])
CountItem(B, p) ==
    BagCardinality([r \in {x \in DOMAIN B : x.kind = "item" /\ x.dev = p} |-> B[r]])

\* C11: once the association has ended and a pass has published that no
\* access point is associated, every pass having completed without a failure,
\* no strength watcher is running and the tracked pair is empty.
C11_AccessPointChurn ==
    (/\ Quiescent /\ ~passes.failed /\ ~AssociatedOnBus
     /\ state.wifi.tag \in {"Disconnected", "Disabled", "NotPresent"}) =>
        /\ access_point = "none"
        /\ \A ap \in ApPaths : CountStrength(workers, ap) = 0

\* C12: a resync of the device registry with the path set it already holds
\* keeps every handle and starts no item watcher.
C12_ResyncIdempotence ==
    [][(devlist.pc = "wait" /\ devlist'.pc = "resynced" /\ DOMAIN devices' = DOMAIN devices) =>
          /\ devices' = devices
          /\ next_handle' = next_handle
          /\ \A p \in ClientPaths : CountItem(workers', p) = CountItem(workers, p)]_vars

\* The levels nmcli shows, which the function follows for five levels.
NmcliLevel(s) ==
    IF s <= 4 THEN 0 ELSE IF s <= 29 THEN 1 ELSE IF s <= 54 THEN 2 ELSE IF s <= 79 THEN 3 ELSE 4

\* C13: for every strength in 0..100, strengh_to_level(s, 5) is the level of
\* the reference staircase 0-4, 5-29, 30-54, 55-79, 80-100.
C13_BucketingAtFive ==
    (result.fn = "level" /\ result.number_of_levels = 5 /\ result.strength <= 100) =>
        result.level = NmcliLevel(result.strength)

\* The strength 80 was bucketed into level 4 of 5.
C13_Witness ==
    /\ result.fn = "level" /\ result.number_of_levels = 5
    /\ result.strength = 80 /\ result.level = 4

\* C14: for every strength in 0..100 and every number of levels N >= 1,
\* strengh_to_level(s, N) is between 0 and N-1.
C14_BucketRange ==
    (result.fn = "level" /\ result.strength <= 100) =>
        result.level \in 0..(result.number_of_levels - 1)

\* C15: when Client::new fails, no client is returned (nothing subscribes),
\* Client::run never starts, no watcher runs and no State is published.
C15_FatalConnectionError ==
    ~run.connected =>
        /\ run.pc = "error" /\ ~InPass(run.snap)
        /\ workers = EmptyBag
        /\ ~devlist.alive /\ ~aclist.alive
        /\ subs = <<>>
        /\ npub = 0 /\ state = InitState
        /\ DOMAIN devices = {} /\ DOMAIN active_connections = {}

\* Client::new failed and the bus has changed since.
C15_Witness ==
    /\ ~run.connected
    /\ events = 0
    /\ \E c \in ClientConns : conn_obj[c].alive

\* C16: there is at most one live item watcher per device path.
C16_NoDuplicateItemWatchers ==
    \A p \in ClientPaths : CountItem(workers, p) <= 1

\* C17: a list watcher that runs keeps running, whatever fails in an
\* iteration.
C17_ListWatcherSurvives ==
    [][/\ devlist.alive => devlist'.alive
       /\ aclist.alive => aclist'.alive]_vars

\* C18: no step ends an item watcher whose device is in the registry or a
\* strength watcher whose access point is the tracked one.
C18_ItemWatcherSurvives ==
    [][/\ \A p \in DOMAIN devices' : CountItem(workers', p) >= CountItem(workers, p)
       /\ \A ap \in ApPaths : access_point' = ap => CountStrength(workers', ap) >= CountStrength(workers, ap)]_vars

\* C19: at most one strength watcher is running, none when the tracked pair is
\* empty, and a running one is bound to the tracked path.
C19_TrackerInvariant ==
    /\ \A ap \in ApPaths : CountStrength(workers, ap) <= (IF access_point = ap THEN 1 ELSE 0)
    /\ access_point \in ApPaths \cup {"none"}

\* C20: while a Wi-Fi device stays associated with the tracked access point, no
\* pass creates another strength watcher for it.
C20_AccessPointReuse ==
    [][\A ap \in ApPaths :
          (access_point = ap /\ AssociatedWith(ap) /\ dev_obj' = dev_obj) =>
              CountStrength(workers', ap) <= CountStrength(workers, ap)]_vars

\* ------------------------------------------------- claims on the registries

\* The number of copies of thread w in bag B.
Copies(B, w) == IF w \in DOMAIN B THEN B[w] ELSE 0
\* A step in which item watcher w takes one notification off its stream.
ItemWoke(w) ==
    /\ w.kind = "item" /\ w.sig > 0 /\ ~InPass(w.snap)
    /\ events' = events
    /\ Copies(workers', w) < Copies(workers, w)

\* C21: the step of the startup enumeration that fills a registry leaves it
\* with the key set of the path list it read from the root object, for the
\* active-connection registry and for the device registry.
C21_InitialPopulation ==
    [][/\ (run.pc = "init_conns" /\ run'.pc = "init_devices") =>
              DOMAIN active_connections' = ConnectionPathList
       /\ (run.pc = "init_devices" /\ run'.pc = "startup") =>
              DOMAIN devices' = DevicePathList]_vars

\* C22: after a list watcher's resync the registry's key set is the path list
\* just read; a path that was in the registry keeps its handle, a new path has
\* a handle built in this resync (no two new paths share one), and a path
\* absent from the list is gone.
C22_ResyncResult ==
    [][/\ (devlist.pc = "wait" /\ devlist'.pc = "resynced") =>
              /\ DOMAIN devices' = DevicePathList
              /\ \A p \in DevicePathList \cap DOMAIN devices : devices'[p] = devices[p]
              /\ \A p \in DevicePathList \ DOMAIN devices :
                     /\ devices'[p] > next_handle /\ devices'[p] <= next_handle'
                     /\ \A q \in DOMAIN devices' \ {p} : devices'[q] # devices'[p]
       /\ (aclist.pc = "wait" /\ aclist'.pc = "resynced") =>
              /\ DOMAIN active_connections' = ConnectionPathList
              /\ \A c \in ConnectionPathList \cap DOMAIN active_connections :
                     active_connections'[c] = active_connections[c]
              /\ \A c \in ConnectionPathList \ DOMAIN active_connections :
                     /\ active_connections'[c] > next_handle /\ active_connections'[c] <= next_handle'
                     /\ \A d \in DOMAIN active_connections' \ {c} :
                            active_connections'[d] # active_connections'[c]]_vars

\* A resync has kept the handle of device 2 and built a new one for device 1,
\* which had left the registry.
C22_Witness ==
    /\ devlist.pc = "resynced"
    /\ DOMAIN devices = {1, 2}
    /\ devices[2] = 2
    /\ devices[1] > 2

\* C23: a device item watcher that wakes with its path absent from the registry
\* exits without running the aggregation; one that wakes with its path present
\* runs the aggregation and keeps running; and no other step ends a device item
\* watcher.
C23_ItemWatcherTermination ==
    [][/\ \A p \in ClientPaths :
              CountItem(workers', p) < CountItem(workers, p) =>
                  /\ p \notin DOMAIN devices
                  /\ UNCHANGED <<state, access_point, last_pass, passes, npub>>
       /\ \A w \in DOMAIN workers :
              ItemWoke(w) =>
                  IF w.dev \in DOMAIN devices
                  THEN /\ CountItem(workers', w.dev) = CountItem(workers, w.dev)
                       /\ \E w2 \in DOMAIN workers' :
                              /\ w2 = [w EXCEPT !.sig = @ - 1, !.snap = w2.snap]
                              /\ \/ InPass(w2.snap)
                                 \/ /\ last_pass'.kind = "dev"
                                    /\ Err \in {last_pass'.wired, last_pass'.wifi.tag, last_pass'.cellular}
                  ELSE workers' = workers (-) SetToBag({w})]_vars

\* The item watcher of device 1, spawned by the startup enumeration, has
\* exited after device 1 left the registry.
C23_Witness ==
    /\ 2 \in DOMAIN devices /\ devices[2] = 2
    /\ 1 \notin DOMAIN devices
    /\ CountItem(workers, 1) = 0
    /\ ~conn_obj[1].alive

\* C27: the publish of a device pass leaves the published vpn field as it was
\* immediately before, and the publish of an active-connection pass leaves the
\* published wired, wifi and cellular fields as they were immediately before.
C27_FieldOwnership ==
    [][npub' # npub =>
          /\ last_pass'.kind = "dev" => state'.vpn = state.vpn
          /\ last_pass'.kind = "ac" =>
                 /\ state'.wired = state.wired
                 /\ state'.wifi = state.wifi
                 /\ state'.cellular = state.cellular]_vars

\* C28: the publish of the startup aggregation sets wired, wifi and cellular
\* and leaves vpn as it was; the published vpn field is Unknown until an
\* active-connection pass has published.
C28_VpnAtStartup ==
    /\ [](~passes.ac_published => state.vpn = VpnVal("Unknown"))
    /\ [][(run.pc = "startup_set" /\ run'.pc = "spawn") =>
              /\ state'.vpn = state.vpn
              /\ state'.wired # "Unknown"
              /\ state'.wifi.tag # "Unknown"
              /\ state'.cellular # "Unknown"]_vars

\* A connection was active when the startup enumeration read the list (its
\* proxy was the first one built), the startup aggregation has published, and
\* vpn is Unknown.
C28_Witness ==
    /\ run.pc = "done"
    /\ 1 \in DOMAIN devices /\ devices[1] = 2
    /\ npub >= 1
    /\ state.wired # "Unknown"
    /\ state.vpn = VpnVal("Unknown")

\* C29: when the startup enumeration fails, the client has been returned (it
\* can be subscribed to), no list watcher and no item watcher runs and the
\* published State is all Unknown from then on; only the enumeration ends
\* Client::run early: once the startup aggregation is reached, failing or
\* not, the list watchers are started.
C29_StartupEnumerationFailure ==
    /\ [](run.pc = "failed" =>
              /\ run.connected /\ ENABLED subscribe
              /\ ~devlist.alive /\ ~aclist.alive
              /\ workers = EmptyBag
              /\ npub = 0 /\ state = InitState)
    /\ [](run.pc = "spawn" => ENABLED RunSpawnListWatchers)
    /\ [][/\ run.pc \in {"startup", "startup_install", "startup_set"} =>
                 run'.pc \in {"startup", "startup_install", "startup_set", "spawn"}
          /\ run.pc = "failed" => run'.pc = "failed"
          /\ run.pc = "done" => run'.pc = "done" /\ devlist.alive]_vars

\* The device enumeration failed after the proxies of the active connections
\* were built, and the bus has made all its changes since.
C29_Witness ==
    /\ run.pc = "failed"
    /\ next_handle > 0
    /\ events = 0

\* C30: with strength in 0..100, no strength gives the last level N-1 when
\* N > 20, and strength 100 gives it for every N from 2 to 20.
C30_TopLevelReachability ==
    (result.fn = "level" /\ result.strength <= 100) =>
        /\ result.number_of_levels > 20 => result.level # result.number_of_levels - 1
        /\ (result.number_of_levels \in 2..20 /\ result.strength = 100) =>
               result.level = result.number_of_levels - 1

\* ----------------------------------------------------- claims on the locks

\* C24: no worker is ever stuck on the devices lock: there is no state in
\* which a pass that holds a read guard is queued in read() behind the
\* resync's write(), which itself waits for that guard.
C24_DeadlockFreedom ==
    \A w \in DOMAIN workers :
        ~(WriterWaiting /\ w.lk.pos = "parked" /\ w.lk.held > 0)

\* C25: while a list watcher runs, its registry changes only by the write of
\* a resync, and that write installs the whole map built for the path list
\* read: a reader sees the registry from before the resync or the complete
\* one after it.
C25_AtomicRegistryVisibility ==
    [][/\ (devlist.alive /\ devices' # devices) =>
              /\ devlist.pc = "write"
              /\ devices' = devlist.new_path_map
       /\ (aclist.alive /\ active_connections' # active_connections) =>
              /\ aclist.pc = "write"
              /\ active_connections' = aclist.new_path_map]_vars

\* A pass holds a read guard of the device registry, which is still the one
\* from before the resync, while the resync waits to write a different map.
C25_Witness ==
    /\ devlist.pc = "write"
    /\ DOMAIN devices = {1, 2}
    /\ DOMAIN devlist.new_path_map # {1, 2}
    /\ \E w \in DOMAIN workers : w.lk.held > 0

\* C26: when a resync writes, the registry is still the one it read and built
\* its map from: no other write came between the two lock acquisitions.
C26_NoLostRegistryUpdate ==
    /\ devlist.pc = "write" => devlist.path_map = devices
    /\ aclist.pc = "write" => aclist.path_map = active_connections

\* A resync is about to write over a registry that an earlier resync of the
\* same list watcher wrote.
C26_Witness ==
    /\ devlist.pc = "write"
    /\ DOMAIN devlist.path_map = {2}
    /\ DOMAIN devlist.new_path_map = {1, 2}
    /\ devlist.path_map = devices

\* C31: for every number of levels N >= 1 and all strengths s1 <= s2 in
\* 0..100, the level of s1 is at most the level of s2; and for N >= 2 the
\* level is 0 exactly when the strength is below 5.
C31_BucketMonotonicity ==
    (result.fn = "level" /\ result.strength <= MaxStrength) =>
        /\ \A s2 \in result.strength..MaxStrength :
               result.level <= strengh_to_level(s2, result.number_of_levels)
        /\ result.number_of_levels >= 2 => (result.level = 0 <=> result.strength < 5)

\* Strength 54 was bucketed into level 2 of 5, one below the level of 55.
C31_Witness ==
    /\ result.fn = "level" /\ result.number_of_levels = 5
    /\ result.strength = 54 /\ result.level = 2
    /\ strengh_to_level(55, 5) = 3

====
